---- MODULE Spec2Model ----
(***************************************************************************)
(* A model of the knowledge-base ingestion lambdas of kb-project:          *)
(*   lambda_function.py  HierarchicalChunker, process_content (hierarchy)  *)
(*   lambda-v1.py        SimpleChunker                                     *)
(*   lambda-latest.py    process_content (embedded-schema role enrichment) *)
(* A string is the sequence of its characters' code points.                *)
(***************************************************************************)
EXTENDS Integers, Sequences, FiniteSets, TLC

VARIABLES
    text,                \* create_chunks: the text argument
    parent_chunk_size,   \* HierarchicalChunker.parent_chunk_size
    child_chunk_size,    \* HierarchicalChunker.child_chunk_size
    overlap,             \* HierarchicalChunker.overlap
    file_metadata,       \* process_content: the metadata argument
    pc,                  \* position in process_content / create_chunks
    words,               \* create_chunks: words
    i,                   \* the running index of the current range() loop
    parent_chunks,       \* create_chunks: parent_chunks
    parent_idx,          \* create_chunks: parent_idx; process_content: idx
    parent_words,        \* create_chunks: parent_words
    child_chunks,        \* create_chunks: child_chunks; process_content: child_chunks
    child_idx,           \* process_content: child_idx
    all_child_chunks,    \* create_chunks: all_child_chunks
    parent_to_children,  \* create_chunks: parent_to_children
    processed_chunks     \* process_content: processed_chunks

VARIABLES
    v1_text,             \* SimpleChunker.chunk: the text argument
    v1_pc,               \* position in SimpleChunker.chunk
    v1_chunks            \* SimpleChunker.chunk: the returned list

VARIABLES
    role,                \* lambda-latest process_content: role
    file_content,        \* lambda-latest process_content: file_content['fileContents']
    l_idx,               \* lambda-latest process_content: position of the for loop
    l_pc,                \* position in lambda-latest process_content
    processed_content    \* lambda-latest process_content: processed_content['fileContents']

VARIABLES
    lh_event,            \* lambda-latest lambda_handler: event
    lh_pc,               \* position in lambda-latest lambda_handler
    lh_file,             \* lambda-latest lambda_handler: position of the loop over input_files
    lh_batch,            \* lambda-latest lambda_handler: position of the loop over content_batches
    lh_batches,          \* lambda-latest lambda_handler: processed_batches
    lh_output,           \* lambda-latest lambda_handler: output_files
    lh_ops               \* the storage calls lambda-latest has made, in order

hvars == <<text, parent_chunk_size, child_chunk_size, overlap, file_metadata, pc,
           words, i, parent_chunks, parent_idx, parent_words, child_chunks,
           child_idx, all_child_chunks, parent_to_children, processed_chunks>>

v1vars == <<v1_text, v1_pc, v1_chunks>>

lvars == <<role, file_content, l_idx, l_pc, processed_content>>

VARIABLES
    hh_event,            \* lambda_function lambda_handler: event
    hh_pc,               \* position in lambda_function lambda_handler
    hh_file,             \* lambda_function lambda_handler: position of the loop over inputFiles
    hh_idx,              \* lambda_function lambda_handler: idx of the loop over processed_chunks
    hh_batches,          \* lambda_function lambda_handler: processed_batches
    hh_output,           \* lambda_function lambda_handler: output_files
    hh_ops               \* the storage calls lambda_function has made, in order

VARIABLES
    vh_event,            \* lambda-v1 lambda_handler: event
    vh_pc,               \* position in lambda-v1 lambda_handler
    vh_file,             \* lambda-v1 lambda_handler: position of the loop over input_files
    vh_batch,            \* lambda-v1 lambda_handler: position of the loop over content_batches
    vh_i,                \* lambda-v1 lambda_handler: i of the loop over chunks
    vh_batches,          \* lambda-v1 lambda_handler: processed_batches
    vh_output,           \* lambda-v1 lambda_handler: output_files
    vh_ops               \* the storage calls lambda-v1 has made, in order

lhvars == <<lh_event, lh_pc, lh_file, lh_batch, lh_batches, lh_output, lh_ops>>

\* The state of the handlers.
hhvars == <<hh_event, hh_pc, hh_file, hh_idx, hh_batches, hh_output, hh_ops>>

vhvars == <<vh_event, vh_pc, vh_file, vh_batch, vh_i, vh_batches, vh_output, vh_ops>>

handlers == <<lhvars, hhvars, vhvars>>

vars == <<hvars, v1vars, lvars, handlers>>

(***************************************************************************)
(* Bounds of the model.                                                    *)
(***************************************************************************)
MaxTokens == 6
MaxParent == 4
MaxChild == 3

(***************************************************************************)
(* Strings.                                                                *)
(***************************************************************************)
\* The characters str.split() treats as blanks (those below U+0100).
Whitespace == {9, 10, 11, 12, 13, 28, 29, 30, 31, 32, 133, 160}

\* " "
SP == <<32>>

Min(a, b) == IF a <= b THEN a ELSE b

\* Python's s[lo:hi] on a list, for 0 <= lo (0-based, hi exclusive, clipped;
\* a negative hi counts from the end).
Slice(s, lo, hi) ==
    SubSeq(s, lo + 1,
           IF hi < 0 THEN (IF hi + Len(s) < 0 THEN 0 ELSE hi + Len(s))
           ELSE Min(hi, Len(s)))

\* The words of two adjacent stretches of a string, put together: the last
\* word of the left one and the first of the right one are one word when no
\* blank separates them.
Glue(left, right, joined) ==
    IF joined
    THEN SubSeq(left, 1, Len(left) - 1) \o <<left[Len(left)] \o right[1]>> \o Tail(right)
    ELSE left \o right

\* The maximal runs of non-blank characters of s[lo..hi], by halving.
RECURSIVE SplitRange(_, _, _)
SplitRange(s, lo, hi) ==
    IF lo > hi THEN <<>>
    ELSE IF lo = hi THEN (IF s[lo] \in Whitespace THEN <<>> ELSE << <<s[lo]>> >>)
    ELSE LET mid == (lo + hi) \div 2
         IN  Glue(SplitRange(s, lo, mid), SplitRange(s, mid + 1, hi),
                  s[mid] \notin Whitespace /\ s[mid + 1] \notin Whitespace)

\* str.split() with no argument: the maximal runs of non-blank characters.
Split(s) == SplitRange(s, 1, Len(s))

RECURSIVE JoinRange(_, _, _, _)
JoinRange(sep, list, lo, hi) ==
    IF lo > hi THEN <<>>
    ELSE IF lo = hi THEN list[lo]
    ELSE LET mid == (lo + hi) \div 2
         IN  JoinRange(sep, list, lo, mid) \o sep \o JoinRange(sep, list, mid + 1, hi)

\* sep.join(list)
Join(sep, list) == JoinRange(sep, list, 1, Len(list))

\* A range that still yields the index k when k has reached stop.
InRangeInclusive(k, stop, step) == IF step > 0 THEN k <= stop ELSE k >= stop

\* range(start, stop, step) still yields the index k (step # 0).
InRange(k, stop, step) == IF step > 0 THEN k < stop ELSE k > stop

(***************************************************************************)
(* The texts the model reads: n distinct one-letter words separated by     *)
(* single spaces (plain), or n distinct two-letter words after a leading   *)
(* space, separated by " \t" and followed by a newline (padded).           *)
(***************************************************************************)
Letter(k) == 1000 + k

PlainText(n) ==
    [p \in 1..(IF n = 0 THEN 0 ELSE 2 * n - 1) |->
        IF p % 2 = 1 THEN Letter((p + 1) \div 2) ELSE 32]

PaddedText(n) ==
    [p \in 1..(IF n = 0 THEN 2 ELSE 4 * n) |->
        IF p = 1 THEN 32
        ELSE IF p = (IF n = 0 THEN 2 ELSE 4 * n) THEN 10
        ELSE IF p % 4 = 2 THEN Letter((p + 2) \div 4)
        ELSE IF p % 4 = 3 THEN 120
        ELSE IF p % 4 = 0 THEN 32
        ELSE 9]

Layout(n, padded) == IF padded THEN PaddedText(n) ELSE PlainText(n)

Texts == {Layout(n, padded) : n \in 0..MaxTokens, padded \in BOOLEAN}

ParentSizes == (-1)..MaxParent
ChildSizes == (-1)..MaxChild
Overlaps == (-1)..(MaxChild + 1)

NoMetadata == [k \in {} |-> ""]

FileMetadatas == {NoMetadata,
                  [k \in {"source"} |-> "doc"],
                  [k \in {"chunkId", "parentChunk"} |-> "stale"]}

(***************************************************************************)
(* HierarchicalChunker.create_chunks                                       *)
(***************************************************************************)
ParentId(idx) == <<"parent", idx>>

ChildId(idx) == <<"child", idx>>

HInit ==
    /\ text \in Texts
    /\ parent_chunk_size \in ParentSizes
    /\ child_chunk_size \in ChildSizes
    /\ overlap \in Overlaps
    /\ file_metadata \in FileMetadatas
    /\ pc = "create_chunks"
    /\ words = <<>>
    /\ i = 0
    /\ parent_chunks = <<>>
    /\ parent_idx = 0
    /\ parent_words = <<>>
    /\ child_chunks = <<>>
    /\ child_idx = 0
    /\ all_child_chunks = <<>>
    /\ parent_to_children = [k \in {} |-> <<>>]
    /\ processed_chunks = <<>>

\* A child loop that adds the overlap to the stride.
StridePlus == child_chunk_size + overlap

\* The stride of the child loop.
Stride == child_chunk_size - overlap

\* Lines 19-22: tokenize, then enter the parent loop; range() with step 0 raises.
Tokenize ==
    /\ pc = "create_chunks"
    /\ words' = Split(text)
    /\ i' = 0
    /\ pc' = IF parent_chunk_size = 0 THEN "raised" ELSE "parent_loop"
    /\ UNCHANGED <<text, parent_chunk_size, child_chunk_size, overlap, file_metadata,
                   parent_chunks, parent_idx, parent_words, child_chunks, child_idx,
                   all_child_chunks, parent_to_children, processed_chunks>>
    /\ UNCHANGED <<v1vars, lvars, handlers>>

\* A parent loop that drops the last word of every window.
ParentWindowShort(ws, start, size) ==
    Join(SP, Slice(ws, start, Min(start + size, Len(ws)) - 1))

ParentWindow(ws, start, size) == Join(SP, Slice(ws, start, Min(start + size, Len(ws))))

\* Lines 22-25: one iteration of the parent loop.
AppendParent ==
    /\ pc = "parent_loop"
    /\ InRange(i, Len(words), parent_chunk_size)
    /\ parent_chunks' = Append(parent_chunks, ParentWindow(words, i, parent_chunk_size))
    /\ i' = i + parent_chunk_size
    /\ UNCHANGED <<text, parent_chunk_size, child_chunk_size, overlap, file_metadata, pc,
                   words, parent_idx, parent_words, child_chunks, child_idx,
                   all_child_chunks, parent_to_children, processed_chunks>>
    /\ UNCHANGED <<v1vars, lvars, handlers>>

\* Lines 27-30: the parent loop is exhausted; start enumerating the parents.
EndParents ==
    /\ pc = "parent_loop"
    /\ ~InRange(i, Len(words), parent_chunk_size)
    /\ parent_idx' = 0
    /\ pc' = "next_parent"
    /\ UNCHANGED <<text, parent_chunk_size, child_chunk_size, overlap, file_metadata,
                   words, i, parent_chunks, parent_words, child_chunks, child_idx,
                   all_child_chunks, parent_to_children, processed_chunks>>
    /\ UNCHANGED <<v1vars, lvars, handlers>>

\* Lines 30-34: take the next parent, re-tokenize it and enter its child loop;
\* range() with step 0 raises ValueError.
BeginChildren ==
    /\ pc = "next_parent"
    /\ parent_idx < Len(parent_chunks)
    /\ parent_words' = Split(parent_chunks[parent_idx + 1])
    /\ child_chunks' = <<>>
    /\ i' = 0
    /\ pc' = IF Stride = 0 THEN "raised" ELSE "child_loop"
    /\ UNCHANGED <<text, parent_chunk_size, child_chunk_size, overlap, file_metadata,
                   words, parent_chunks, parent_idx, child_idx, all_child_chunks,
                   parent_to_children, processed_chunks>>
    /\ UNCHANGED <<v1vars, lvars, handlers>>

ChildWindow(ws, start, size) == Join(SP, Slice(ws, start, Min(start + size, Len(ws))))

\* Lines 34-38: one iteration of the child loop.
AppendChild ==
    /\ pc = "child_loop"
    /\ InRange(i, Len(parent_words), Stride)
    /\ child_chunks' = Append(child_chunks, ChildWindow(parent_words, i, child_chunk_size))
    /\ all_child_chunks' =
           Append(all_child_chunks, ChildWindow(parent_words, i, child_chunk_size))
    /\ i' = i + Stride
    /\ UNCHANGED <<text, parent_chunk_size, child_chunk_size, overlap, file_metadata, pc,
                   words, parent_chunks, parent_idx, parent_words, child_idx,
                   parent_to_children, processed_chunks>>
    /\ UNCHANGED <<v1vars, lvars, handlers>>

\* Line 40: the child loop is exhausted; record the parent's children.
EndChildren ==
    /\ pc = "child_loop"
    /\ ~InRange(i, Len(parent_words), Stride)
    /\ parent_to_children' =
           [k \in DOMAIN parent_to_children \cup {ParentId(parent_idx)} |->
               IF k = ParentId(parent_idx) THEN child_chunks ELSE parent_to_children[k]]
    /\ parent_idx' = parent_idx + 1
    /\ pc' = "next_parent"
    /\ UNCHANGED <<text, parent_chunk_size, child_chunk_size, overlap, file_metadata,
                   words, i, parent_chunks, parent_words, child_chunks, child_idx,
                   all_child_chunks, processed_chunks>>
    /\ UNCHANGED <<v1vars, lvars, handlers>>

(***************************************************************************)
(* process_content (lambda_function.py)                                    *)
(***************************************************************************)
\* {**metadata, **own}: the keys of own override those of metadata.
Merge(metadata, own) ==
    [k \in DOMAIN metadata \cup DOMAIN own |->
        IF k \in DOMAIN own THEN own[k] ELSE metadata[k]]

\* Child ids counted from 1.
ChildIdsFromOne(n) == [k \in 1..n |-> ChildId(k)]

\* [f"child_{i}" for i in range(n)]
ChildIds(n) == [k \in 1..n |-> ChildId(k - 1)]

\* A chunk list that grows at the front.
EmitFront(chunks, chunk_info) == <<chunk_info>> \o chunks

\* processed_chunks.append(chunk_info)
Emit(chunks, chunk_info) == Append(chunks, chunk_info)

ParentInfo(metadata, content, chunk_id, n) ==
    [content |-> content,
     metadata |-> Merge(metadata, [chunkType |-> "parent",
                                   chunkId |-> chunk_id,
                                   childChunks |-> ChildIds(n)])]

ChildInfo(metadata, content, child_id, chunk_id) ==
    [content |-> content,
     metadata |-> Merge(metadata, [chunkType |-> "child",
                                   chunkId |-> child_id,
                                   parentChunk |-> chunk_id])]

\* Lines 42-46 and 92-96: create_chunks returns; process_content starts its loop.
ReturnChunks ==
    /\ pc = "next_parent"
    /\ parent_idx >= Len(parent_chunks)
    /\ parent_idx' = 0
    /\ pc' = "emit_parent"
    /\ UNCHANGED <<text, parent_chunk_size, child_chunk_size, overlap, file_metadata,
                   words, i, parent_chunks, parent_words, child_chunks, child_idx,
                   all_child_chunks, parent_to_children, processed_chunks>>
    /\ UNCHANGED <<v1vars, lvars, handlers>>

\* Lines 96-113: emit the record of the next parent and fetch its children.
EmitParent ==
    /\ pc = "emit_parent"
    /\ parent_idx < Len(parent_chunks)
    /\ processed_chunks' =
           Emit(processed_chunks,
                ParentInfo(file_metadata, parent_chunks[parent_idx + 1],
                           ParentId(parent_idx),
                           Len(parent_to_children[ParentId(parent_idx)])))
    /\ child_chunks' = parent_to_children[ParentId(parent_idx)]
    /\ child_idx' = 0
    /\ pc' = "emit_child"
    /\ UNCHANGED <<text, parent_chunk_size, child_chunk_size, overlap, file_metadata,
                   words, i, parent_chunks, parent_idx, parent_words,
                   all_child_chunks, parent_to_children>>
    /\ UNCHANGED <<v1vars, lvars, handlers>>

\* Lines 113-124: emit the record of the next child of the current parent.
EmitChild ==
    /\ pc = "emit_child"
    /\ child_idx < Len(child_chunks)
    /\ processed_chunks' =
           Emit(processed_chunks,
                ChildInfo(file_metadata, child_chunks[child_idx + 1],
                          ChildId(child_idx), ParentId(parent_idx)))
    /\ child_idx' = child_idx + 1
    /\ UNCHANGED <<text, parent_chunk_size, child_chunk_size, overlap, file_metadata, pc,
                   words, i, parent_chunks, parent_idx, parent_words, child_chunks,
                   all_child_chunks, parent_to_children>>
    /\ UNCHANGED <<v1vars, lvars, handlers>>

\* Line 113 exhausted: back to the parent loop of line 96.
EndEmitChildren ==
    /\ pc = "emit_child"
    /\ child_idx >= Len(child_chunks)
    /\ parent_idx' = parent_idx + 1
    /\ pc' = "emit_parent"
    /\ UNCHANGED <<text, parent_chunk_size, child_chunk_size, overlap, file_metadata,
                   words, i, parent_chunks, parent_words, child_chunks, child_idx,
                   all_child_chunks, parent_to_children, processed_chunks>>
    /\ UNCHANGED <<v1vars, lvars, handlers>>

\* Line 126: return processed_chunks.
ReturnProcessed ==
    /\ pc = "emit_parent"
    /\ parent_idx >= Len(parent_chunks)
    /\ pc' = "done"
    /\ UNCHANGED <<text, parent_chunk_size, child_chunk_size, overlap, file_metadata,
                   words, i, parent_chunks, parent_idx, parent_words, child_chunks,
                   child_idx, all_child_chunks, parent_to_children, processed_chunks>>
    /\ UNCHANGED <<v1vars, lvars, handlers>>

HNext ==
    \/ Tokenize
    \/ AppendParent
    \/ EndParents
    \/ BeginChildren
    \/ AppendChild
    \/ EndChildren
    \/ ReturnChunks
    \/ EmitParent
    \/ EmitChild
    \/ EndEmitChildren
    \/ ReturnProcessed

(***************************************************************************)
(* SimpleChunker.chunk (lambda-v1.py)                                      *)
(***************************************************************************)
MaxWordsV1 == 201

\* The window of SimpleChunker.chunk.
ChunkWords == 100

V1Texts == {Layout(n, padded) : n \in 0..MaxWordsV1, padded \in BOOLEAN}

\* A window one word short of the step.
V1WindowShort(ws, start) == Join(SP, Slice(ws, start, start + ChunkWords - 1))

V1Window(ws, start) == Join(SP, Slice(ws, start, start + ChunkWords))

V1Step == ChunkWords

\* [' '.join(words[i:i+100]) for i in range(0, len(words), 100)]
RECURSIVE ChunkFrom(_, _)
ChunkFrom(ws, start) ==
    IF InRange(start, Len(ws), V1Step)
    THEN <<V1Window(ws, start)>> \o ChunkFrom(ws, start + V1Step)
    ELSE <<>>

SimpleChunk(t) == ChunkFrom(Split(t), 0)

V1Init ==
    /\ v1_text \in V1Texts
    /\ v1_pc = "chunk"
    /\ v1_chunks = <<>>

V1Idle ==
    /\ v1_text = <<>>
    /\ v1_pc = "idle"
    /\ v1_chunks = <<>>

\* chunker.chunk(text_content)
V1Chunk ==
    /\ v1_pc = "chunk"
    /\ v1_chunks' = SimpleChunk(v1_text)
    /\ v1_pc' = "done"
    /\ UNCHANGED v1_text
    /\ UNCHANGED <<hvars, lvars, handlers>>

(***************************************************************************)
(* JSON, as far as process_content of lambda-latest.py uses it.  A text is *)
(* [kind, members, compact]: kind says what the text encodes ("invalid":   *)
(* not JSON at all), members are the name/value pairs of an object in the  *)
(* order written (a name may be written twice), compact says whether the   *)
(* text has no blanks after "," and ":".  A Python value is [type, items]: *)
(* a dict keeps its keys once each, in insertion order.                    *)
(***************************************************************************)
JsonText(kind, members, compact) ==
    [kind |-> kind, members |-> members, compact |-> compact]

PyValue(type, items) == [type |-> type, items |-> items]

Keys(items) == {items[k][1] : k \in 1..Len(items)}

\* d[key] for a key of the dict.
GetItem(items, key) ==
    items[CHOOSE k \in 1..Len(items) : items[k][1] = key][2]

\* d[key] = value: in place for a key of the dict, appended otherwise.
SetItem(items, key, value) ==
    IF key \in Keys(items)
    THEN [k \in 1..Len(items) |->
             IF items[k][1] = key THEN <<key, value>> ELSE items[k]]
    ELSE Append(items, <<key, value>>)

RECURSIVE DictOf(_, _, _)
DictOf(members, k, acc) ==
    IF k > Len(members) THEN acc
    ELSE DictOf(members, k + 1, SetItem(acc, members[k][1], members[k][2]))

\* json.loads raises JSONDecodeError on this text.
LoadsFails(t) == t.kind = "invalid"

\* json.loads(t), for a text it accepts.
Loads(t) ==
    CASE t.kind = "object" -> PyValue("dict", DictOf(t.members, 1, <<>>))
      [] t.kind = "array" -> PyValue("list", <<>>)
      [] t.kind = "number" -> PyValue("int", <<>>)
      [] t.kind = "string" -> PyValue("str", <<>>)
      [] t.kind = "null" -> PyValue("NoneType", <<>>)

\* json.dumps(v): ", " and ": " separators, a dict's items in their order.
Dumps(v) ==
    CASE v.type = "dict" -> JsonText("object", v.items, FALSE)
      [] v.type = "list" -> JsonText("array", <<>>, FALSE)
      [] v.type = "int" -> JsonText("number", <<>>, FALSE)
      [] v.type = "str" -> JsonText("string", <<>>, FALSE)
      [] v.type = "NoneType" -> JsonText("null", <<>>, FALSE)

\* v['role'] = role raises TypeError unless v is a dict.
SetItemFails(v) == v.type # "dict"

(***************************************************************************)
(* process_content (lambda-latest.py)                                      *)
(***************************************************************************)
MaxItems == 2

MetaTexts ==
    {JsonText("object", <<>>, TRUE),
     JsonText("object", << <<"team", "kb">> >>, TRUE),
     JsonText("object", << <<"role", "old">>, <<"team", "kb">> >>, FALSE),
     JsonText("object", << <<"team", "kb">>, <<"team", "hr">> >>, FALSE),
     JsonText("array", <<>>, FALSE),
     JsonText("number", <<>>, FALSE),
     JsonText("string", <<>>, FALSE),
     JsonText("null", <<>>, FALSE),
     JsonText("invalid", <<>>, FALSE)}

ContentMetadatas ==
    {[k \in {"metadata", "source"} |-> IF k = "metadata" THEN t ELSE "s3"] : t \in MetaTexts}
    \cup {[k \in {"source"} |-> "s3"]}

Contents ==
    {[k \in {"contentType", "contentMetadata", "contentBody"} |->
         IF k = "contentMetadata" THEN m ELSE IF k = "contentType" THEN "PDF" ELSE "body"]
     : m \in ContentMetadatas}
    \cup {[k \in {"contentBody"} |-> "body"]}

Roles == {"", "admin"}

\* d.get(key, default)
Get(d, key, default) == IF key \in DOMAIN d THEN d[key] ELSE default

\* d[key] = value on a dict with string keys
Put(d, key, value) ==
    [k \in DOMAIN d \cup {key} |-> IF k = key THEN value ELSE d[k]]

EmptyDict == [k \in {} |-> ""]

\* The text '{}'.
EmptyObjectText == JsonText("object", <<>>, TRUE)

LInit ==
    /\ role \in Roles
    /\ file_content \in UNION {[1..n -> Contents] : n \in 0..MaxItems}
    /\ l_idx = 1
    /\ l_pc = "enrich"
    /\ processed_content = <<>>

LIdle ==
    /\ role = ""
    /\ file_content = <<>>
    /\ l_idx = 1
    /\ l_pc = "idle"
    /\ processed_content = <<>>

\* An enrichment that always stores the fresh object.
NewMetadataFresh(content_metadata, r) ==
    IF r # "" THEN Dumps(PyValue("dict", << <<"role", r>> >>)) ELSE EmptyObjectText

\* Lines 59-76: the value stored in content_metadata['metadata'].
NewMetadata(content_metadata, r) ==
    LET metadata_str == Get(content_metadata, "metadata", EmptyObjectText)
    IN  IF LoadsFails(metadata_str)
        THEN (IF r # "" THEN Dumps(PyValue("dict", << <<"role", r>> >>))
              ELSE EmptyObjectText)
        ELSE LET metadata_dict == Loads(metadata_str)
             IN  Dumps(IF r # ""
                       THEN PyValue("dict", SetItem(metadata_dict.items, "role", r))
                       ELSE metadata_dict)

\* Lines 63-66: an exception other than JSONDecodeError leaves the try block.
EnrichRaises(content_metadata, r) ==
    LET metadata_str == Get(content_metadata, "metadata", EmptyObjectText)
    IN  /\ ~LoadsFails(metadata_str)
        /\ r # ""
        /\ SetItemFails(Loads(metadata_str))

\* Lines 56-82: one iteration of the loop over fileContents.  content_metadata
\* is the item's own dict when it has one, so the item is updated in place.
EnrichContent ==
    /\ l_pc = "enrich"
    /\ l_idx <= Len(file_content)
    /\ LET content == file_content[l_idx]
           content_metadata == Get(content, "contentMetadata", EmptyDict)
       IN  IF EnrichRaises(content_metadata, role)
           THEN /\ l_pc' = "raised"
                /\ UNCHANGED <<file_content, l_idx, processed_content>>
           ELSE LET updated == Put(content_metadata, "metadata",
                                   NewMetadata(content_metadata, role))
                IN  /\ file_content' =
                          IF "contentMetadata" \in DOMAIN content
                          THEN [file_content EXCEPT
                                   ![l_idx] = Put(content, "contentMetadata", updated)]
                          ELSE file_content
                    /\ processed_content' =
                          Append(processed_content,
                                 [contentType |-> Get(content, "contentType", ""),
                                  contentMetadata |-> updated,
                                  contentBody |-> Get(content, "contentBody", "")])
                    /\ l_idx' = l_idx + 1
                    /\ UNCHANGED l_pc
    /\ UNCHANGED role
    /\ UNCHANGED <<hvars, v1vars, handlers>>

\* Line 84: return processed_content.
ReturnEnriched ==
    /\ l_pc = "enrich"
    /\ l_idx > Len(file_content)
    /\ l_pc' = "done"
    /\ UNCHANGED <<role, file_content, l_idx, processed_content>>
    /\ UNCHANGED <<hvars, v1vars, handlers>>

(***************************************************************************)
(* lambda_handler (lambda-latest.py).  A URI is the sequence of its parts: *)
(* the scheme "s3://", names and "/".  The storage is outside the program: *)
(* a call fails or answers with any value of a small set.                  *)
(***************************************************************************)
MaxFilesL == 2

\* s3://company-data-rag/doc
DocUri == <<"s3://", "company-data-rag", "/", "doc">>

RECURSIVE LStrip(_, _)
\* s.lstrip(c)
LStrip(s, c) == IF s # <<>> /\ s[1] = c THEN LStrip(Tail(s), c) ELSE s

\* urlparse(uri).path: what follows the scheme and the host.
UrlPath(uri) ==
    IF Len(uri) >= 2 /\ uri[1] = "s3://" /\ uri[2] # "/"
    THEN SubSeq(uri, 3, Len(uri))
    ELSE IF uri # <<>> /\ uri[1] = "s3://" THEN SubSeq(uri, 2, Len(uri))
    ELSE uri

\* Lines 9-21: get_original_key_from_location.
OriginalKey(file_location) ==
    IF Get(file_location, "type", "") = "S3"
    THEN LET s3_uri == Get(Get(file_location, "s3_location", EmptyDict), "uri", <<>>)
         IN  IF s3_uri # <<>> THEN LStrip(UrlPath(s3_uri), "/") ELSE <<>>
    ELSE <<>>

S3Location == [type |-> "S3", s3_location |-> [uri |-> DocUri]]

LInputFiles ==
    {[originalFileLocation |-> S3Location,
      fileMetadata |-> "m1",
      contentBatches |-> << [key |-> "b1"] >>],
     [originalFileLocation |-> S3Location,
      fileMetadata |-> "m2",
      contentBatches |-> << [nokey |-> "b0"], [key |-> "b2"] >>],
     [originalFileLocation |-> [type |-> "OTHER"],
      fileMetadata |-> "m3",
      contentBatches |-> << [key |-> "b3"] >>]}

LEvents ==
    {[k \in {"bucketName"} |-> "kb"], [k \in {"inputFiles"} |-> <<>>]}
    \cup {[inputFiles |-> fs, bucketName |-> b] :
             fs \in UNION {[1..n -> LInputFiles] : n \in 0..MaxFilesL}, b \in {"", "kb"}}

\* What head_object may answer: an error, or the object's user metadata.
HeadResponses ==
    {[error |-> TRUE, Metadata |-> EmptyDict],
     [error |-> FALSE, Metadata |-> EmptyDict],
     [error |-> FALSE, Metadata |-> [k \in {"role"} |-> ""]],
     [error |-> FALSE, Metadata |-> [k \in {"role"} |-> "admin"]]}

\* get_source_metadata with a default role for an object that has none.
SourceRoleDefault(response) ==
    IF response.error THEN ""
    ELSE Get(response.Metadata, "role", "none")

\* Lines 23-48: get_source_metadata, given what head_object did.
SourceRole(response) ==
    IF response.error THEN ""
    ELSE IF "role" \notin DOMAIN response.Metadata THEN ""
    ELSE response.Metadata["role"]

\* What get_object may deliver as the batch's fileContents.
LFileContents ==
    {<<>>} \cup
    {<<c>> : c \in {x \in Contents :
                       /\ "contentMetadata" \in DOMAIN x
                       /\ "metadata" \in DOMAIN x["contentMetadata"]
                       /\ x["contentMetadata"]["metadata"] \in
                             {JsonText("object", << <<"team", "kb">> >>, TRUE),
                              JsonText("array", <<>>, FALSE),
                              JsonText("invalid", <<>>, FALSE)}}}

\* f"Output/{input_key}"
OutputKey(input_key) == <<"Output/", input_key>>

\* not x, for the list an event holds under inputFiles
NoFiles(x) == Len(x) = 0

\* A test of bucketName that accepts the empty name.
NoNameNever(x) == FALSE

\* not x, for the string an event holds under bucketName
NoName(x) == x = ""

LHIdle ==
    /\ lh_event = EmptyDict
    /\ lh_pc = "idle"
    /\ lh_file = 1
    /\ lh_batch = 1
    /\ lh_batches = <<>>
    /\ lh_output = <<>>
    /\ lh_ops = <<>>

LHInit ==
    /\ lh_event \in LEvents
    /\ lh_pc = "start"
    /\ lh_file = 1
    /\ lh_batch = 1
    /\ lh_batches = <<>>
    /\ lh_output = <<>>
    /\ lh_ops = <<>>

LHFile == lh_event["inputFiles"][lh_file]

LHBatches == Get(LHFile, "contentBatches", <<>>)

\* Lines 87-96: the required parameters; ValueError reaches the caller.
LHValidate ==
    /\ lh_pc = "start"
    /\ lh_pc' = IF \/ "inputFiles" \notin DOMAIN lh_event
                   \/ "bucketName" \notin DOMAIN lh_event
                   \/ NoFiles(lh_event["inputFiles"])
                   \/ NoName(lh_event["bucketName"])
                THEN "raised" ELSE "next_file"
    /\ lh_file' = 1
    /\ lh_output' = <<>>
    /\ UNCHANGED <<lh_event, lh_batch, lh_batches, lh_ops>>
    /\ UNCHANGED <<hvars, v1vars, lvars, hhvars, vhvars>>

\* Lines 98-110: the next input file; one without an original key is skipped.
LHNextFile ==
    /\ lh_pc = "next_file"
    /\ lh_file <= Len(lh_event["inputFiles"])
    /\ IF OriginalKey(Get(LHFile, "originalFileLocation", EmptyDict)) = <<>>
       THEN /\ lh_file' = lh_file + 1
            /\ UNCHANGED <<lh_pc, lh_batch, lh_batches>>
       ELSE /\ lh_batches' = <<>>
            /\ lh_batch' = 1
            /\ lh_pc' = "next_batch"
            /\ UNCHANGED lh_file
    /\ UNCHANGED <<lh_event, lh_output, lh_ops>>
    /\ UNCHANGED <<hvars, v1vars, lvars, hhvars, vhvars>>

\* Lines 112-116: the next content batch; one without a key is skipped.
LHNextBatch ==
    /\ lh_pc = "next_batch"
    /\ lh_batch <= Len(LHBatches)
    /\ IF "key" \notin DOMAIN LHBatches[lh_batch]
       THEN /\ lh_batch' = lh_batch + 1
            /\ UNCHANGED lh_pc
       ELSE /\ lh_pc' = "lookup"
            /\ UNCHANGED lh_batch
    /\ UNCHANGED <<lh_event, lh_file, lh_batches, lh_output, lh_ops>>
    /\ UNCHANGED <<hvars, v1vars, lvars, hhvars, vhvars>>

\* Lines 118-121: role = get_source_metadata(s3, original_key).
LHLookup ==
    /\ lh_pc = "lookup"
    /\ \E response \in HeadResponses :
          /\ role' = SourceRole(response)
          /\ lh_ops' = Append(lh_ops,
                 [op |-> "head", bucket |-> "company-data-rag",
                  key |-> OriginalKey(LHFile["originalFileLocation"]),
                  failed |-> response.error, body |-> response.Metadata])
    /\ lh_pc' = "read"
    /\ UNCHANGED <<lh_event, lh_file, lh_batch, lh_batches, lh_output>>
    /\ UNCHANGED <<file_content, l_idx, l_pc, processed_content>>
    /\ UNCHANGED <<hvars, v1vars, hhvars, vhvars>>

\* Lines 124-125 and 145-148: read_s3_file; an error of get_object is not
\* caught anywhere.  Then process_content starts.
LHRead ==
    /\ lh_pc = "read"
    /\ \/ /\ lh_ops' = Append(lh_ops,
                 [op |-> "get", bucket |-> lh_event["bucketName"],
                  key |-> LHBatches[lh_batch]["key"], failed |-> TRUE, body |-> <<>>])
          /\ lh_pc' = "raised"
          /\ UNCHANGED <<file_content, l_idx, l_pc, processed_content>>
       \/ \E contents \in LFileContents :
             /\ lh_ops' = Append(lh_ops,
                    [op |-> "get", bucket |-> lh_event["bucketName"],
                     key |-> LHBatches[lh_batch]["key"], failed |-> FALSE,
                     body |-> contents])
             /\ file_content' = contents
             /\ l_idx' = 1
             /\ processed_content' = <<>>
             /\ l_pc' = "enrich"
             /\ lh_pc' = "process"
    /\ UNCHANGED <<lh_event, lh_file, lh_batch, lh_batches, lh_output>>
    /\ UNCHANGED role
    /\ UNCHANGED <<hvars, v1vars, hhvars, vhvars>>

\* Line 125: an exception of process_content is not caught either.
LHProcessRaised ==
    /\ lh_pc = "process"
    /\ l_pc = "raised"
    /\ lh_pc' = "raised"
    /\ UNCHANGED <<lh_event, lh_file, lh_batch, lh_batches, lh_output, lh_ops>>
    /\ UNCHANGED <<hvars, v1vars, lvars, hhvars, vhvars>>

\* Lines 127-132 and 150-156: write_to_s3, then the output key is listed.
LHWrite ==
    /\ lh_pc = "process"
    /\ l_pc = "done"
    /\ \E failed \in BOOLEAN :
          /\ lh_ops' = Append(lh_ops,
                 [op |-> "put", bucket |-> lh_event["bucketName"],
                  key |-> OutputKey(LHBatches[lh_batch]["key"]), failed |-> failed,
                  body |-> processed_content])
          /\ IF failed
             THEN /\ lh_pc' = "raised"
                  /\ UNCHANGED <<lh_batches, lh_batch>>
             ELSE /\ lh_batches' =
                        Append(lh_batches, [key |-> OutputKey(LHBatches[lh_batch]["key"])])
                  /\ lh_batch' = lh_batch + 1
                  /\ lh_pc' = "next_batch"
    /\ UNCHANGED <<lh_event, lh_file, lh_output>>
    /\ UNCHANGED <<hvars, v1vars, lvars, hhvars, vhvars>>

\* Lines 134-139: the batches are exhausted; the file's output is listed.
LHEndFile ==
    /\ lh_pc = "next_batch"
    /\ lh_batch > Len(LHBatches)
    /\ lh_output' =
          Append(lh_output,
                 [originalFileLocation |-> Get(LHFile, "originalFileLocation", EmptyDict),
                  fileMetadata |-> Get(LHFile, "fileMetadata", EmptyDict),
                  contentBatches |-> lh_batches])
    /\ lh_file' = lh_file + 1
    /\ lh_pc' = "next_file"
    /\ UNCHANGED <<lh_event, lh_batch, lh_batches, lh_ops>>
    /\ UNCHANGED <<hvars, v1vars, lvars, hhvars, vhvars>>

\* Lines 141-143: return {'outputFiles': output_files}.
LHReturn ==
    /\ lh_pc = "next_file"
    /\ lh_file > Len(lh_event["inputFiles"])
    /\ lh_pc' = "returned"
    /\ UNCHANGED <<lh_event, lh_file, lh_batch, lh_batches, lh_output, lh_ops>>
    /\ UNCHANGED <<hvars, v1vars, lvars, hhvars, vhvars>>

(***************************************************************************)
(* lambda_handler (lambda_function.py)                                     *)
(***************************************************************************)
MaxFilesH == 2

MaxWordsH == 1501

\* The storage calls of one invocation that may fail.
MaxFailures == 1

\* Line 10: the sizes of HierarchicalChunker().
DefaultParentSize == 1500

DefaultChildSize == 300

DefaultOverlap == 60

\* uri.replace('s3://', '')
WithoutScheme(uri) == SelectSeq(uri, LAMBDA part : part # "s3://")

\* path.split('/', 1)
SplitOnce(path) ==
    IF \E k \in 1..Len(path) : path[k] = "/"
    THEN LET k == CHOOSE k \in 1..Len(path) :
                     /\ path[k] = "/"
                     /\ \A j \in 1..(k - 1) : path[j] # "/"
         IN  << SubSeq(path, 1, k - 1), SubSeq(path, k + 1, Len(path)) >>
    ELSE << path >>

\* Lines 48-56: get_source_bucket_and_key raises ValueError.
BadUri(uri) == Len(SplitOnce(WithoutScheme(uri))) # 2

\* Lines 48-56: what get_source_bucket_and_key returns.
SourceBucket(uri) == SplitOnce(WithoutScheme(uri))[1]

SourceKey(uri) == SplitOnce(WithoutScheme(uri))[2]

RECURSIVE Digits(_)
\* The decimal digits an f-string writes for a number that is not negative.
Digits(n) ==
    IF n < 10 THEN << <<"0", "1", "2", "3", "4", "5", "6", "7", "8", "9">>[n + 1] >>
    ELSE Digits(n \div 10) \o << <<"0", "1", "2", "3", "4", "5", "6", "7", "8", "9">>[(n % 10) + 1] >>

\* Line 160: f"processed/{source_key}"
BaseKey(source_key) == <<"processed/">> \o source_key

\* A chunk key that leaves the number out.
ChunkKeyFlat(base_key, chunk_num) == base_key \o <<"/chunk_">>

\* Line 65: f"{base_key}/chunk_{chunk_num}"
ChunkKey(base_key, chunk_num) == base_key \o <<"/chunk_">> \o Digits(chunk_num)

\* Line 73: f"{base_key}/chunk_{chunk_num}.metadata.json"
MetadataKey(base_key, chunk_num) ==
    base_key \o <<"/chunk_">> \o Digits(chunk_num) \o <<".metadata.json">>

\* Lines 74-83: json.dumps of the metadata document
MetadataBody(chunk_info) == [json |-> [metadataAttributes |-> chunk_info.metadata]]

HInputFiles ==
    {[originalFileLocation |-> [uri |-> <<"s3://", "bucket-a", "/", "doc">>],
      fileMetadata |-> [k \in {"source"} |-> "doc"]],
     [originalFileLocation |-> [uri |-> <<"s3://", "bucket-b", "/", "doc">>],
      fileMetadata |-> NoMetadata],
     [originalFileLocation |-> [uri |-> <<"s3://", "bucket-a">>],
      fileMetadata |-> NoMetadata],
     [fileMetadata |-> NoMetadata]}

\* Lists of input files, no file twice.
HFileLists ==
    {fs \in UNION {[1..n -> HInputFiles] : n \in 0..MaxFilesH} :
        \A j, k \in 1..Len(fs) : fs[j] = fs[k] => j = k}

HEvents ==
    {[k \in {"bucketName"} |-> "kb"], [k \in {"inputFiles"} |-> <<>>]}
    \cup {[inputFiles |-> fs, bucketName |-> b] :
             fs \in HFileLists, b \in {"", "kb"}}

\* The decoded body get_object delivers when it does not fail: the document
\* of bucket-a is long enough for two parents, the one of bucket-b is a word.
StoredText(bucket, key) ==
    IF bucket = <<"bucket-a">> THEN PlainText(MaxWordsH) ELSE PlainText(1)

HHIdle ==
    /\ hh_event = EmptyDict
    /\ hh_pc = "idle"
    /\ hh_file = 1
    /\ hh_idx = 0
    /\ hh_batches = <<>>
    /\ hh_output = <<>>
    /\ hh_ops = <<>>

HHInit ==
    /\ hh_event \in HEvents
    /\ hh_pc = "start"
    /\ hh_file = 1
    /\ hh_idx = 0
    /\ hh_batches = <<>>
    /\ hh_output = <<>>
    /\ hh_ops = <<>>

HHFile == hh_event["inputFiles"][hh_file]

\* original_location
HHUri == Get(Get(HHFile, "originalFileLocation", EmptyDict), "uri", <<>>)

\* The storage calls that have failed.
Failures == Cardinality({k \in 1..Len(hh_ops) : hh_ops[k].failed})

\* An except that gives up the invocation.
AfterFailureAbort == "raised"

\* Lines 179-181: except Exception logs and goes on with the next file.
AfterFailure == "next_file"

\* Lines 128-136: the required parameters; the outer except re-raises.
HHValidate ==
    /\ hh_pc = "start"
    /\ hh_pc' = IF \/ "inputFiles" \notin DOMAIN hh_event
                   \/ "bucketName" \notin DOMAIN hh_event
                   \/ NoFiles(hh_event["inputFiles"])
                   \/ NoName(hh_event["bucketName"])
                THEN "raised" ELSE "next_file"
    /\ hh_file' = 1
    /\ hh_output' = <<>>
    /\ UNCHANGED <<hh_event, hh_idx, hh_batches, hh_ops>>
    /\ UNCHANGED <<hvars, v1vars, lvars, lhvars, vhvars>>

\* Lines 138-144: the next input file; one without a location is skipped.
HHNextFile ==
    /\ hh_pc = "next_file"
    /\ hh_file <= Len(hh_event["inputFiles"])
    /\ IF HHUri = <<>>
       THEN /\ hh_file' = hh_file + 1
            /\ UNCHANGED hh_pc
       ELSE /\ hh_pc' = "locate"
            /\ UNCHANGED hh_file
    /\ UNCHANGED <<hh_event, hh_idx, hh_batches, hh_output, hh_ops>>
    /\ UNCHANGED <<hvars, v1vars, lvars, lhvars, vhvars>>

\* Lines 146-148: get_source_bucket_and_key; its ValueError is caught at 179.
HHLocate ==
    /\ hh_pc = "locate"
    /\ IF BadUri(HHUri)
       THEN /\ hh_pc' = AfterFailure
            /\ hh_file' = hh_file + 1
       ELSE /\ hh_pc' = "read"
            /\ UNCHANGED hh_file
    /\ UNCHANGED <<hh_event, hh_idx, hh_batches, hh_output, hh_ops>>
    /\ UNCHANGED <<hvars, v1vars, lvars, lhvars, vhvars>>

\* Lines 150-157: get_object and decode; then process_content starts on the
\* text with HierarchicalChunker().
HHRead ==
    /\ hh_pc = "read"
    /\ \/ /\ Failures < MaxFailures
          /\ hh_ops' = Append(hh_ops,
                 [op |-> "get", file |-> hh_file, bucket |-> SourceBucket(HHUri),
                  key |-> SourceKey(HHUri), failed |-> TRUE, body |-> <<>>])
          /\ hh_pc' = AfterFailure
          /\ hh_file' = hh_file + 1
          /\ UNCHANGED hvars
       \/ LET content == StoredText(SourceBucket(HHUri), SourceKey(HHUri)) IN
             /\ hh_ops' = Append(hh_ops,
                    [op |-> "get", file |-> hh_file, bucket |-> SourceBucket(HHUri),
                     key |-> SourceKey(HHUri), failed |-> FALSE, body |-> content])
             /\ hh_pc' = "process"
             /\ UNCHANGED hh_file
             /\ text' = content
             /\ parent_chunk_size' = DefaultParentSize
             /\ child_chunk_size' = DefaultChildSize
             /\ overlap' = DefaultOverlap
             /\ file_metadata' = Get(HHFile, "fileMetadata", NoMetadata)
             /\ pc' = "create_chunks"
             /\ words' = <<>>
             /\ i' = 0
             /\ parent_chunks' = <<>>
             /\ parent_idx' = 0
             /\ parent_words' = <<>>
             /\ child_chunks' = <<>>
             /\ child_idx' = 0
             /\ all_child_chunks' = <<>>
             /\ parent_to_children' = [k \in {} |-> <<>>]
             /\ processed_chunks' = <<>>
    /\ UNCHANGED <<hh_event, hh_idx, hh_batches, hh_output>>
    /\ UNCHANGED <<v1vars, lvars, lhvars, vhvars>>

\* Lines 159-162: process_content has returned; the loop over its chunks starts.
HHBeginWrites ==
    /\ hh_pc = "process"
    /\ pc = "done"
    /\ hh_batches' = <<>>
    /\ hh_idx' = 0
    /\ hh_pc' = "write_chunk"
    /\ UNCHANGED <<hh_event, hh_file, hh_output, hh_ops>>
    /\ UNCHANGED <<hvars, v1vars, lvars, lhvars, vhvars>>

\* Lines 64-71: write_chunk_and_metadata puts the chunk's content.
HHWriteChunk ==
    /\ hh_pc = "write_chunk"
    /\ hh_idx < Len(processed_chunks)
    /\ \E failed \in {f \in BOOLEAN : f => Failures < MaxFailures} :
          /\ hh_ops' = Append(hh_ops,
                 [op |-> "put", file |-> hh_file, bucket |-> hh_event["bucketName"],
                  key |-> ChunkKey(BaseKey(SourceKey(HHUri)), hh_idx),
                  failed |-> failed, body |-> processed_chunks[hh_idx + 1].content])
          /\ IF failed
             THEN /\ hh_pc' = AfterFailure
                  /\ hh_file' = hh_file + 1
             ELSE /\ hh_pc' = "write_metadata"
                  /\ UNCHANGED hh_file
    /\ UNCHANGED <<hh_event, hh_idx, hh_batches, hh_output>>
    /\ UNCHANGED <<hvars, v1vars, lvars, lhvars, vhvars>>

\* Lines 73-88 and 170: the chunk's metadata document is put, then the chunk
\* key is listed.
HHWriteMetadata ==
    /\ hh_pc = "write_metadata"
    /\ \E failed \in {f \in BOOLEAN : f => Failures < MaxFailures} :
          /\ hh_ops' = Append(hh_ops,
                 [op |-> "put", file |-> hh_file, bucket |-> hh_event["bucketName"],
                  key |-> MetadataKey(BaseKey(SourceKey(HHUri)), hh_idx),
                  failed |-> failed, body |-> MetadataBody(processed_chunks[hh_idx + 1])])
          /\ IF failed
             THEN /\ hh_pc' = AfterFailure
                  /\ hh_file' = hh_file + 1
                  /\ UNCHANGED <<hh_batches, hh_idx>>
             ELSE /\ hh_batches' =
                        Append(hh_batches,
                               [key |-> ChunkKey(BaseKey(SourceKey(HHUri)), hh_idx)])
                  /\ hh_idx' = hh_idx + 1
                  /\ hh_pc' = "write_chunk"
                  /\ UNCHANGED hh_file
    /\ UNCHANGED <<hh_event, hh_output>>
    /\ UNCHANGED <<hvars, v1vars, lvars, lhvars, vhvars>>

\* Lines 172-177: every chunk is written; the file's output is listed.
HHEndFile ==
    /\ hh_pc = "write_chunk"
    /\ hh_idx >= Len(processed_chunks)
    /\ hh_output' =
          Append(hh_output,
                 [originalFileLocation |-> HHFile["originalFileLocation"],
                  fileMetadata |-> Get(HHFile, "fileMetadata", NoMetadata),
                  contentBatches |-> hh_batches])
    /\ hh_file' = hh_file + 1
    /\ hh_pc' = "next_file"
    /\ UNCHANGED <<hh_event, hh_idx, hh_batches, hh_ops>>
    /\ UNCHANGED <<hvars, v1vars, lvars, lhvars, vhvars>>

\* Lines 183-185: return {'outputFiles': output_files}.
HHReturn ==
    /\ hh_pc = "next_file"
    /\ hh_file > Len(hh_event["inputFiles"])
    /\ hh_pc' = "returned"
    /\ UNCHANGED <<hh_event, hh_file, hh_idx, hh_batches, hh_output, hh_ops>>
    /\ UNCHANGED <<hvars, v1vars, lvars, lhvars, vhvars>>

(***************************************************************************)
(* lambda_handler (lambda-v1.py)                                           *)
(***************************************************************************)
MaxFilesV == 2

\* Line 27
IntermediateBucket == "kb-intermediate-us-east-1-824116678613"

\* input_key.rsplit('.', 1)[0]
BaseFilename(input_key) ==
    IF \E k \in 1..Len(input_key) : input_key[k] = "."
    THEN LET k == CHOOSE k \in 1..Len(input_key) :
                     /\ input_key[k] = "."
                     /\ \A j \in (k + 1)..Len(input_key) : input_key[j] # "."
         IN  SubSeq(input_key, 1, k - 1)
    ELSE input_key

\* Line 59: f"{base_filename}_chunk_{i}.txt"
ChunkFilename(input_key, n) == BaseFilename(input_key) \o <<"_chunk_">> \o Digits(n) \o <<".txt">>

\* Line 60: f"{input_key}.metadata.json"
MetadataFilename(input_key) == input_key \o <<".metadata.json">>

\* Lines 72-80: metadata_content, as write_to_s3 dumps it
V1MetadataBody(metadata, n, total, input_key) ==
    [json |-> [metadataAttributes |->
                  [role |-> Get(metadata, "role", "default"),
                   chunk_type |-> "content",
                   chunk_number |-> n,
                   total_chunks |-> total,
                   original_file |-> input_key]]]

VInputFiles ==
    {[originalFileLocation |-> [uri |-> DocUri],
      fileMetadata |-> [k \in {"role"} |-> "admin"],
      contentBatches |-> << [key |-> <<"doc", ".", "txt">>] >>],
     [fileMetadata |-> NoMetadata,
      contentBatches |-> << [key |-> <<"doc">>], [nokey |-> <<"b0">>] >>],
     [fileMetadata |-> NoMetadata]}

VEvents ==
    {[k \in {"bucketName"} |-> "kb"], [k \in {"inputFiles"} |-> <<>>]}
    \cup {[inputFiles |-> fs, bucketName |-> b] :
             fs \in UNION {[1..n -> VInputFiles] : n \in 0..MaxFilesV}, b \in {"", "kb"}}

\* What get_object may deliver as the decoded body: no, one or two chunks.
VContents == {PlainText(n) : n \in {0, 1, ChunkWords + 1}}

VHIdle ==
    /\ vh_event = EmptyDict
    /\ vh_pc = "idle"
    /\ vh_file = 1
    /\ vh_batch = 1
    /\ vh_i = 0
    /\ vh_batches = <<>>
    /\ vh_output = <<>>
    /\ vh_ops = <<>>

VHInit ==
    /\ vh_event \in VEvents
    /\ vh_pc = "start"
    /\ vh_file = 1
    /\ vh_batch = 1
    /\ vh_i = 0
    /\ vh_batches = <<>>
    /\ vh_output = <<>>
    /\ vh_ops = <<>>

VHFile == vh_event["inputFiles"][vh_file]

VHBatches == Get(VHFile, "contentBatches", <<>>)

\* input_key
VHKey == VHBatches[vh_batch]["key"]

\* Lines 20-33: the required parameters; ValueError reaches the caller.
VHValidate ==
    /\ vh_pc = "start"
    /\ vh_pc' = IF \/ "inputFiles" \notin DOMAIN vh_event
                   \/ "bucketName" \notin DOMAIN vh_event
                   \/ NoFiles(vh_event["inputFiles"])
                   \/ NoName(vh_event["bucketName"])
                THEN "raised" ELSE "next_file"
    /\ vh_file' = 1
    /\ vh_output' = <<>>
    /\ UNCHANGED <<vh_event, vh_batch, vh_i, vh_batches, vh_ops>>
    /\ UNCHANGED <<hvars, v1vars, lvars, lhvars, hhvars>>

\* Lines 35-40: the next input file.
VHNextFile ==
    /\ vh_pc = "next_file"
    /\ vh_file <= Len(vh_event["inputFiles"])
    /\ vh_batches' = <<>>
    /\ vh_batch' = 1
    /\ vh_pc' = "next_batch"
    /\ UNCHANGED <<vh_event, vh_file, vh_i, vh_output, vh_ops>>
    /\ UNCHANGED <<hvars, v1vars, lvars, lhvars, hhvars>>

\* Lines 42-46: the next content batch; one without a key raises ValueError.
VHNextBatch ==
    /\ vh_pc = "next_batch"
    /\ vh_batch <= Len(VHBatches)
    /\ vh_pc' = IF "key" \notin DOMAIN VHBatches[vh_batch] THEN "raised" ELSE "read"
    /\ UNCHANGED <<vh_event, vh_file, vh_batch, vh_i, vh_batches, vh_output, vh_ops>>
    /\ UNCHANGED <<hvars, v1vars, lvars, lhvars, hhvars>>

\* Lines 48-52 and 107-114: read_s3_file logs an error and raises it again.
VHRead ==
    /\ vh_pc = "read"
    /\ \/ /\ vh_ops' = Append(vh_ops,
                 [op |-> "get", bucket |-> vh_event["bucketName"], key |-> VHKey,
                  failed |-> TRUE, body |-> <<>>])
          /\ vh_pc' = "raised"
          /\ UNCHANGED v1vars
       \/ \E content \in VContents :
             /\ vh_ops' = Append(vh_ops,
                    [op |-> "get", bucket |-> vh_event["bucketName"], key |-> VHKey,
                     failed |-> FALSE, body |-> content])
             /\ v1_text' = content
             /\ v1_pc' = "chunk"
             /\ v1_chunks' = <<>>
             /\ vh_pc' = "chunk"
    /\ UNCHANGED <<vh_event, vh_file, vh_batch, vh_i, vh_batches, vh_output>>
    /\ UNCHANGED <<hvars, lvars, lhvars, hhvars>>

\* Lines 54-57: the chunks are there; the loop over them starts.
VHBeginWrites ==
    /\ vh_pc = "chunk"
    /\ v1_pc = "done"
    /\ vh_i' = 0
    /\ vh_pc' = "write_chunk"
    /\ UNCHANGED <<vh_event, vh_file, vh_batch, vh_batches, vh_output, vh_ops>>
    /\ UNCHANGED <<hvars, v1vars, lvars, lhvars, hhvars>>

\* Lines 59-69: the chunk goes to the intermediate bucket.
VHWriteChunk ==
    /\ vh_pc = "write_chunk"
    /\ vh_i < Len(v1_chunks)
    /\ \E failed \in BOOLEAN :
          /\ vh_ops' = Append(vh_ops,
                 [op |-> "put", bucket |-> IntermediateBucket,
                  key |-> ChunkFilename(VHKey, vh_i), failed |-> failed,
                  body |-> v1_chunks[vh_i + 1]])
          /\ vh_pc' = IF failed THEN "raised" ELSE "write_metadata"
    /\ UNCHANGED <<vh_event, vh_file, vh_batch, vh_i, vh_batches, vh_output>>
    /\ UNCHANGED <<hvars, v1vars, lvars, lhvars, hhvars>>

\* Lines 71-94: the metadata goes to the source bucket; the keys are listed.
VHWriteMetadata ==
    /\ vh_pc = "write_metadata"
    /\ \E failed \in BOOLEAN :
          /\ vh_ops' = Append(vh_ops,
                 [op |-> "put", bucket |-> vh_event["bucketName"],
                  key |-> MetadataFilename(VHKey), failed |-> failed,
                  body |-> V1MetadataBody(Get(VHFile, "fileMetadata", NoMetadata),
                                          vh_i, Len(v1_chunks), VHKey)])
          /\ IF failed
             THEN /\ vh_pc' = "raised"
                  /\ UNCHANGED <<vh_batches, vh_i>>
             ELSE /\ vh_batches' =
                        Append(vh_batches,
                               [key |-> ChunkFilename(VHKey, vh_i),
                                metadata_key |-> MetadataFilename(VHKey)])
                  /\ vh_i' = vh_i + 1
                  /\ vh_pc' = "write_chunk"
    /\ UNCHANGED <<vh_event, vh_file, vh_batch, vh_output>>
    /\ UNCHANGED <<hvars, v1vars, lvars, lhvars, hhvars>>

\* Line 57 exhausted: back to the loop over the batches.
VHEndBatch ==
    /\ vh_pc = "write_chunk"
    /\ vh_i >= Len(v1_chunks)
    /\ vh_batch' = vh_batch + 1
    /\ vh_pc' = "next_batch"
    /\ UNCHANGED <<vh_event, vh_file, vh_i, vh_batches, vh_output, vh_ops>>
    /\ UNCHANGED <<hvars, v1vars, lvars, lhvars, hhvars>>

\* Lines 96-102: the batches are exhausted; the file's output is listed.
VHEndFile ==
    /\ vh_pc = "next_batch"
    /\ vh_batch > Len(VHBatches)
    /\ vh_output' =
          Append(vh_output,
                 [originalFileLocation |-> Get(VHFile, "originalFileLocation", EmptyDict),
                  fileMetadata |-> Get(VHFile, "fileMetadata", NoMetadata),
                  contentBatches |-> vh_batches])
    /\ vh_file' = vh_file + 1
    /\ vh_pc' = "next_file"
    /\ UNCHANGED <<vh_event, vh_batch, vh_i, vh_batches, vh_ops>>
    /\ UNCHANGED <<hvars, v1vars, lvars, lhvars, hhvars>>

\* Lines 104-105: return result.
VHReturn ==
    /\ vh_pc = "next_file"
    /\ vh_file > Len(vh_event["inputFiles"])
    /\ vh_pc' = "returned"
    /\ UNCHANGED <<vh_event, vh_file, vh_batch, vh_i, vh_batches, vh_output, vh_ops>>
    /\ UNCHANGED <<hvars, v1vars, lvars, lhvars, hhvars>>

(***************************************************************************)
(* Specifications: one per program.                                        *)
(***************************************************************************)
HIdle ==
    /\ text = <<>>
    /\ parent_chunk_size = 1
    /\ child_chunk_size = 1
    /\ overlap = 0
    /\ file_metadata = NoMetadata
    /\ pc = "idle"
    /\ words = <<>>
    /\ i = 0
    /\ parent_chunks = <<>>
    /\ parent_idx = 0
    /\ parent_words = <<>>
    /\ child_chunks = <<>>
    /\ child_idx = 0
    /\ all_child_chunks = <<>>
    /\ parent_to_children = [k \in {} |-> <<>>]
    /\ processed_chunks = <<>>

\* lambda_function.py
Init == HInit /\ V1Idle /\ LIdle /\ LHIdle /\ HHIdle /\ VHIdle

Next == HNext

Spec == Init /\ [][Next]_vars

\* The interpreter runs the statements of a call one after the other: a step
\* that can be taken is taken.
SpecFair == Init /\ [][Next]_vars /\ WF_vars(Next)

\* lambda-v1.py
InitV1 == HIdle /\ V1Init /\ LIdle /\ LHIdle /\ HHIdle /\ VHIdle

NextV1 == V1Chunk

SpecV1 == InitV1 /\ [][NextV1]_vars

\* lambda-latest.py
InitLatest == HIdle /\ V1Idle /\ LInit /\ LHIdle /\ HHIdle /\ VHIdle

NextLatest ==
    \/ EnrichContent
    \/ ReturnEnriched

SpecLatest == InitLatest /\ [][NextLatest]_vars

\* lambda-latest.py: lambda_handler
InitLatestHandler == HIdle /\ V1Idle /\ LIdle /\ LHInit /\ HHIdle /\ VHIdle

NextLatestHandler ==
    \/ LHValidate
    \/ LHNextFile
    \/ LHNextBatch
    \/ LHLookup
    \/ LHRead
    \/ EnrichContent
    \/ ReturnEnriched
    \/ LHProcessRaised
    \/ LHWrite
    \/ LHEndFile
    \/ LHReturn

SpecLatestHandler == InitLatestHandler /\ [][NextLatestHandler]_vars

\* lambda_function.py: lambda_handler
InitHandler == HIdle /\ V1Idle /\ LIdle /\ LHIdle /\ HHInit /\ VHIdle

NextHandler ==
    \/ HHValidate
    \/ HHNextFile
    \/ HHLocate
    \/ HHRead
    \/ Tokenize
    \/ AppendParent
    \/ EndParents
    \/ BeginChildren
    \/ AppendChild
    \/ EndChildren
    \/ ReturnChunks
    \/ EmitParent
    \/ EmitChild
    \/ EndEmitChildren
    \/ ReturnProcessed
    \/ HHBeginWrites
    \/ HHWriteChunk
    \/ HHWriteMetadata
    \/ HHEndFile
    \/ HHReturn

SpecHandler == InitHandler /\ [][NextHandler]_vars

\* lambda-v1.py: lambda_handler
InitV1Handler == HIdle /\ V1Idle /\ LIdle /\ LHIdle /\ HHIdle /\ VHInit

NextV1Handler ==
    \/ VHValidate
    \/ VHNextFile
    \/ VHNextBatch
    \/ VHRead
    \/ V1Chunk
    \/ VHBeginWrites
    \/ VHWriteChunk
    \/ VHWriteMetadata
    \/ VHEndBatch
    \/ VHEndFile
    \/ VHReturn

\* One invocation, of any of the three handlers.
InitInvocation == InitHandler \/ InitLatestHandler \/ InitV1Handler

NextInvocation ==
    \/ HHValidate
    \/ HHNextFile
    \/ HHLocate
    \/ HHRead
    \/ Tokenize
    \/ AppendParent
    \/ EndParents
    \/ BeginChildren
    \/ AppendChild
    \/ EndChildren
    \/ ReturnChunks
    \/ EmitParent
    \/ EmitChild
    \/ EndEmitChildren
    \/ ReturnProcessed
    \/ HHBeginWrites
    \/ HHWriteChunk
    \/ HHWriteMetadata
    \/ HHEndFile
    \/ HHReturn
    \/ LHValidate
    \/ LHNextFile
    \/ LHNextBatch
    \/ LHLookup
    \/ LHRead
    \/ EnrichContent
    \/ ReturnEnriched
    \/ LHProcessRaised
    \/ LHWrite
    \/ LHEndFile
    \/ LHReturn
    \/ VHValidate
    \/ VHNextFile
    \/ VHNextBatch
    \/ VHRead
    \/ V1Chunk
    \/ VHBeginWrites
    \/ VHWriteChunk
    \/ VHWriteMetadata
    \/ VHEndBatch
    \/ VHEndFile
    \/ VHReturn

SpecInvocation == InitInvocation /\ [][NextInvocation]_vars

(***************************************************************************)
(* Properties of HierarchicalChunker.create_chunks.                        *)
(***************************************************************************)
RECURSIVE Concat(_, _)
\* The concatenation of the first n sequences of a sequence of sequences.
Concat(seqs, n) == IF n = 0 THEN <<>> ELSE Concat(seqs, n - 1) \o seqs[n]

Elems(s) == {s[k] : k \in 1..Len(s)}

\* The parent loop has run to its end.
ParentsBuilt == pc \notin {"idle", "create_chunks", "parent_loop"}

\* The tokens of each parent window.
ParentTokens == [k \in 1..Len(parent_chunks) |-> Split(parent_chunks[k])]

\* The parents whose child loop has run to its end.
ParentsChunked == {p \in 0..(Len(parent_chunks) - 1) : ParentId(p) \in DOMAIN parent_to_children}

\* The tokens of each child window of parent p.
ChildTokens(p) ==
    [k \in 1..Len(parent_to_children[ParentId(p)]) |->
        Split(parent_to_children[ParentId(p)][k])]

ValidOverlap == 0 < overlap /\ overlap < child_chunk_size

\* C1: for parentSize > 0 the parent windows are the consecutive slices of the
\* token sequence T, parentSize tokens each, only the final one possibly
\* shorter and none empty; their tokens concatenated give T; an empty T gives
\* no parent.
C1_ParentsPartition ==
    (ParentsBuilt /\ parent_chunk_size > 0) =>
        LET T == Split(text)
            n == Len(parent_chunks)
        IN  /\ Concat(ParentTokens, n) = T
            /\ \A k \in 1..n :
                  /\ ParentTokens[k] =
                        SubSeq(T, (k - 1) * parent_chunk_size + 1,
                               Min(k * parent_chunk_size, Len(T)))
                  /\ Len(ParentTokens[k]) >= 1
                  /\ k < n => Len(ParentTokens[k]) = parent_chunk_size
                  /\ Len(ParentTokens[k]) <= parent_chunk_size
            /\ (T = <<>>) => (n = 0)

\* A padded text of five words cut into two full parents and a shorter third.
C1_Witness ==
    /\ pc = "done"
    /\ text = PaddedText(5)
    /\ parent_chunk_size = 2
    /\ Len(parent_chunks) = 3
    /\ Len(ParentTokens[3]) = 1

\* C2: with 0 < overlap < childSize, every child window of a parent other
\* than its last has exactly childSize tokens.
C2_NonFinalChildrenFull ==
    ValidOverlap =>
        \A p \in ParentsChunked :
            \A k \in 1..(Len(ChildTokens(p)) - 1) :
                Len(ChildTokens(p)[k]) = child_chunk_size

\* C3: with 0 < overlap < childSize, consecutive child windows k and k+1 of a
\* parent share exactly overlap tokens: the last overlap tokens of window k
\* are the first overlap tokens of window k+1.
C3_ConsecutiveChildrenShareOverlap ==
    ValidOverlap =>
        \A p \in ParentsChunked :
            \A k \in 1..(Len(ChildTokens(p)) - 1) :
                LET a == ChildTokens(p)[k]
                    b == ChildTokens(p)[k + 1]
                IN  /\ Len(a) >= overlap
                    /\ Len(b) >= overlap
                    /\ SubSeq(a, Len(a) - overlap + 1, Len(a)) = SubSeq(b, 1, overlap)
                    /\ Cardinality(Elems(a) \cap Elems(b)) = overlap

\* C4: with 0 < overlap < childSize, the last token of a non-empty parent is in
\* one of its child windows, and so is every other token of the parent.
C4_ChildrenCoverParent ==
    ValidOverlap =>
        \A p \in ParentsChunked :
            LET P == ParentTokens[p + 1]
                covered == UNION {Elems(ChildTokens(p)[k]) : k \in 1..Len(ChildTokens(p))}
            IN  P # <<>> =>
                   /\ P[Len(P)] \in covered
                   /\ Elems(P) \subseteq covered
                   /\ covered \subseteq Elems(P)

\* A parent of three tokens cut with childSize 2, overlap 1 into three
\* windows, the last holding the parent's last token alone.
C4_Witness ==
    /\ pc = "done"
    /\ child_chunk_size = 2
    /\ overlap = 1
    /\ Len(parent_chunks) >= 1
    /\ Len(ParentTokens[1]) = 3
    /\ Len(ChildTokens(0)) = 3
    /\ ChildTokens(0)[3] = <<ParentTokens[1][3]>>

\* C5: with overlap >= childSize chunking fails before any parent or child
\* window is generated, and never returns a chunk set.
C5_BadOverlapRejectedFirst ==
    overlap >= child_chunk_size =>
        /\ parent_chunks = <<>>
        /\ all_child_chunks = <<>>
        /\ pc \notin {"emit_parent", "emit_child", "done"}

(***************************************************************************)
(* Properties of process_content (lambda_function.py).                     *)
(***************************************************************************)
\* The children create_chunks derived from parent p.
Derived(p) == parent_to_children[ParentId(p)]

RECURSIVE Position(_)
\* Where the record of parent p belongs in the emitted list.
Position(p) == IF p = 0 THEN 1 ELSE Position(p - 1) + 1 + Len(Derived(p - 1))

IsParentRecord(r, p) ==
    /\ r.metadata["chunkType"] = "parent"
    /\ r.metadata["chunkId"] = ParentId(p)
    /\ r.content = parent_chunks[p + 1]

IsChildRecord(r, p, c) ==
    /\ r.metadata["chunkType"] = "child"
    /\ r.metadata["chunkId"] = ChildId(c)
    /\ r.metadata["parentChunk"] = ParentId(p)
    /\ r.content = Derived(p)[c + 1]

\* C6: the emitted list holds, for p = 0, 1, ... in order, the record of
\* parent_p immediately followed by its children child_0, child_1, ... in
\* generation order, and nothing else.
C6_ParentThenItsChildren ==
    pc = "done" =>
        LET n == Len(parent_chunks)
        IN  /\ Len(processed_chunks) = Position(n) - 1
            /\ \A p \in 0..(n - 1) :
                  /\ IsParentRecord(processed_chunks[Position(p)], p)
                  /\ \A c \in 0..(Len(Derived(p)) - 1) :
                        IsChildRecord(processed_chunks[Position(p) + 1 + c], p, c)

\* Three parents, the first two with two children each, the third with one:
\* eight records emitted.
C6_Witness ==
    /\ pc = "done"
    /\ Len(parent_chunks) = 3
    /\ Len(Derived(0)) = 2
    /\ Len(Derived(1)) = 2
    /\ Len(processed_chunks) = 8

ParentRecords == {j \in 1..Len(processed_chunks) :
                     processed_chunks[j].metadata["chunkType"] = "parent"}

ChildRecords == {j \in 1..Len(processed_chunks) :
                    processed_chunks[j].metadata["chunkType"] = "child"}

\* C7: every child record names one parentChunk, the chunkId of a parent record
\* of the list whose childChunks holds the child's chunkId; every parent's
\* childChunks is child_0 .. child_{n-1} for the n windows derived from it, and
\* the list holds n child records naming that parent.
C7_HierarchyLinks ==
    pc = "done" =>
        /\ \A j \in ChildRecords :
              LET m == processed_chunks[j].metadata
              IN  /\ "parentChunk" \in DOMAIN m
                  /\ \E q \in ParentRecords :
                        LET pm == processed_chunks[q].metadata
                        IN  /\ pm["chunkId"] = m["parentChunk"]
                            /\ m["chunkId"] \in Elems(pm["childChunks"])
                  /\ Cardinality({q \in ParentRecords :
                         processed_chunks[q].metadata["chunkId"] = m["parentChunk"]}) = 1
        /\ \A q \in ParentRecords :
              LET pm == processed_chunks[q].metadata
                  n == Len(parent_to_children[pm["chunkId"]])
              IN  /\ pm["childChunks"] = [k \in 1..n |-> <<"child", k - 1>>]
                  /\ Cardinality({j \in ChildRecords :
                         processed_chunks[j].metadata["parentChunk"] = pm["chunkId"]}) = n
        /\ Cardinality(ParentRecords) = Len(parent_chunks)

\* The id child_0 occurs under parent_0 and again under parent_1, with file
\* metadata that itself carries chunkId and parentChunk keys.
C7_Witness ==
    /\ pc = "done"
    /\ "parentChunk" \in DOMAIN file_metadata
    /\ Len(processed_chunks) >= 4
    /\ \E j, k \in ChildRecords :
          /\ processed_chunks[j].metadata["chunkId"] = ChildId(0)
          /\ processed_chunks[k].metadata["chunkId"] = ChildId(0)
          /\ processed_chunks[j].metadata["parentChunk"] = ParentId(0)
          /\ processed_chunks[k].metadata["parentChunk"] = ParentId(1)

(***************************************************************************)
(* Properties of SimpleChunker.chunk.                                      *)
(***************************************************************************)
\* The pieces of two adjacent stretches of a string, put together: the last
\* piece of the left one continues in the first of the right one.
GluePieces(left, right) ==
    SubSeq(left, 1, Len(left) - 1) \o <<left[Len(left)] \o right[1]>> \o Tail(right)

\* s[lo..hi] cut at every occurrence of the character c, by halving.
RECURSIVE PiecesRange(_, _, _, _)
PiecesRange(s, c, lo, hi) ==
    IF lo > hi THEN << <<>> >>
    ELSE IF lo = hi THEN (IF s[lo] = c THEN << <<>>, <<>> >> ELSE << <<s[lo]>> >>)
    ELSE LET mid == (lo + hi) \div 2
         IN  GluePieces(PiecesRange(s, c, lo, mid), PiecesRange(s, c, mid + 1, hi))

\* s.split(' '): the pieces between single spaces, empty pieces kept.
SplitOnSpace(s) == PiecesRange(s, 32, 1, Len(s))

V1Tokens == [k \in 1..Len(v1_chunks) |-> SplitOnSpace(v1_chunks[k])]

\* C8: the windows, re-split on the single space and concatenated in order,
\* give the token sequence T; there are ceil(len(T)/100) of them; each but the
\* last has exactly 100 tokens and none is empty; a text without tokens gives
\* no window.
C8_FixedWindowsPartition ==
    v1_pc = "done" =>
        LET T == Split(v1_text)
            n == Len(v1_chunks)
        IN  /\ Concat(V1Tokens, n) = T
            /\ n = (Len(T) + ChunkWords - 1) \div ChunkWords
            /\ \A k \in 1..n :
                  /\ v1_chunks[k] # <<>>
                  /\ <<>> \notin Elems(V1Tokens[k])
                  /\ k < n => Len(V1Tokens[k]) = ChunkWords
                  /\ Len(V1Tokens[k]) <= ChunkWords
            /\ (T = <<>>) => (v1_chunks = <<>>)

\* A padded text of 201 words cut into windows of 100, 100 and 1 words.
C8_Witness ==
    /\ v1_pc = "done"
    /\ v1_text = PaddedText(201)
    /\ Len(v1_chunks) = 3
    /\ Len(V1Tokens[2]) = ChunkWords
    /\ Len(V1Tokens[3]) = 1

(***************************************************************************)
(* Properties of process_content (lambda-latest.py).                       *)
(***************************************************************************)
\* The object a JSON text of kind "object" encodes: each name with the value
\* of its last member.
ObjectOf(t) ==
    [name \in {t.members[k][1] : k \in 1..Len(t.members)} |->
        t.members[CHOOSE k \in 1..Len(t.members) :
                     /\ t.members[k][1] = name
                     /\ \A j \in (k + 1)..Len(t.members) : t.members[j][1] # name][2]]

\* The object with role set.
WithRole(obj, r) == [name \in DOMAIN obj \cup {"role"} |-> IF name = "role" THEN r ELSE obj[name]]

\* The loop of process_content is at an item that carries a metadata text.
AtItemWithMetadata ==
    /\ l_pc = "enrich"
    /\ l_idx <= Len(file_content)
    /\ "contentMetadata" \in DOMAIN file_content[l_idx]
    /\ "metadata" \in DOMAIN file_content[l_idx]["contentMetadata"]

\* The item under the loop and the record appended for it.
ItemMetadata == file_content[l_idx]["contentMetadata"]

Appended == processed_content'[Len(processed_content')]

\* C9: an item whose metadata text encodes an object is appended with a metadata
\* text that encodes the same object, role set to the role when that is
\* non-empty; the other keys of contentMetadata keep their values and none is
\* deleted.
C9_EnrichKeepsObject ==
    [][(AtItemWithMetadata /\ ItemMetadata["metadata"].kind = "object") =>
          /\ l_pc' = "enrich"
          /\ Len(processed_content') = Len(processed_content) + 1
          /\ Appended.contentMetadata["metadata"].kind = "object"
          /\ ObjectOf(Appended.contentMetadata["metadata"]) =
                IF role # "" THEN WithRole(ObjectOf(ItemMetadata["metadata"]), role)
                ELSE ObjectOf(ItemMetadata["metadata"])
          /\ DOMAIN Appended.contentMetadata = DOMAIN ItemMetadata
          /\ \A key \in DOMAIN ItemMetadata \ {"metadata"} :
                Appended.contentMetadata[key] = ItemMetadata[key]
      ]_vars

\* The item {"role": "old", "team": "kb"} enriched with role admin.
C9_Witness ==
    /\ role = "admin"
    /\ Len(processed_content) >= 1
    /\ processed_content[1].contentMetadata["metadata"] =
          JsonText("object", << <<"role", "admin">>, <<"team", "kb">> >>, FALSE)
    /\ processed_content[1].contentMetadata["source"] = "s3"

\* C10: an item whose metadata text is not a JSON-encoded object (not JSON, or
\* JSON for an array, a number, ...) raises no error, is appended with the
\* encoding of {role: role} for a non-empty role and of {} otherwise, and the
\* loop goes on to the next item.
C10_MalformedReplaced ==
    [][(AtItemWithMetadata /\ ItemMetadata["metadata"].kind # "object") =>
          /\ l_pc' = "enrich"
          /\ l_idx' = l_idx + 1
          /\ Len(processed_content') = Len(processed_content) + 1
          /\ Appended.contentMetadata["metadata"].kind = "object"
          /\ ObjectOf(Appended.contentMetadata["metadata"]) =
                IF role # "" THEN [name \in {"role"} |-> role] ELSE [name \in {} |-> ""]
      ]_vars

\* The roles an item's metadata text carries: none or one.
ItemRoles(item) ==
    IF /\ "contentMetadata" \in DOMAIN item
       /\ "metadata" \in DOMAIN item["contentMetadata"]
       /\ item["contentMetadata"]["metadata"].kind = "object"
       /\ "role" \in DOMAIN ObjectOf(item["contentMetadata"]["metadata"])
    THEN {ObjectOf(item["contentMetadata"]["metadata"])["role"]}
    ELSE {}

\* Storage call k was a lookup that failed or found no role or an empty one.
NoRoleFound(k) ==
    /\ lh_ops[k].op = "head"
    /\ lh_ops[k].failed \/ Get(lh_ops[k].body, "role", "") = ""

\* The key is among the content batches the handler lists.
LHListed(key) ==
    \/ /\ lh_pc # "returned"
       /\ \E j \in 1..Len(lh_batches) : lh_batches[j].key = key
    \/ \E f \in 1..Len(lh_output) :
          \E j \in 1..Len(lh_output[f].contentBatches) :
             lh_output[f].contentBatches[j].key = key

\* C11: when the head-metadata lookup fails, or answers with no role or an
\* empty role, the role is empty and nothing is raised; the next storage call
\* is the read of that batch; once read, the batch is enriched without an
\* error and written under its output key with no role added to any item, and
\* a written batch is listed in the result.
C11_LookupFailureKeepsBatch ==
    \A k \in 1..Len(lh_ops) :
       NoRoleFound(k) =>
          /\ k = Len(lh_ops) => (lh_pc = "read" /\ role = "")
          /\ k < Len(lh_ops) =>
                lh_ops[k + 1].op = "get"
          /\ k + 1 = Len(lh_ops) =>
                /\ lh_ops[k + 1].key = LHBatches[lh_batch]["key"]
                /\ ~lh_ops[k + 1].failed =>
                      (lh_pc = "process" /\ l_pc \in {"enrich", "done"} /\ role = "")
          /\ k + 2 <= Len(lh_ops) =>
                /\ ~lh_ops[k + 1].failed
                /\ lh_ops[k + 2].op = "put"
                /\ lh_ops[k + 2].key = OutputKey(lh_ops[k + 1].key)
                /\ Len(lh_ops[k + 2].body) = Len(lh_ops[k + 1].body)
                /\ \A n \in 1..Len(lh_ops[k + 1].body) :
                      ItemRoles(lh_ops[k + 2].body[n]) = ItemRoles(lh_ops[k + 1].body[n])
                /\ (~lh_ops[k + 2].failed /\ lh_pc # "raised") =>
                      LHListed(lh_ops[k + 2].key)

\* The lookup for batch b1 failed; its one item was read, written without a
\* role, and the handler returned a result that lists Output/b1.
C11_Witness ==
    /\ lh_pc = "returned"
    /\ Len(lh_ops) = 3
    /\ lh_ops[1].op = "head" /\ lh_ops[1].failed
    /\ lh_ops[2].op = "get" /\ ~lh_ops[2].failed /\ Len(lh_ops[2].body) = 1
    /\ lh_ops[3].op = "put" /\ ~lh_ops[3].failed
    /\ ItemRoles(lh_ops[3].body[1]) = {}
    /\ Len(lh_output) = 1
    /\ lh_output[1].contentBatches = << [key |-> OutputKey("b1")] >>

\* C13: when the object of a content batch cannot be read, the invocation does
\* not abort: the handler goes on with the remaining input files.
C13_UnreadableBatchSkipsFile ==
    \A k \in 1..Len(lh_ops) :
       (lh_ops[k].op = "get" /\ lh_ops[k].failed) => lh_pc # "raised"

\* The storage calls made for input file f, in order.
OpsOf(f) == SelectSeq(hh_ops, LAMBDA o : o.file = f)

\* The puts made for input file f, in order.
PutsOf(f) == SelectSeq(hh_ops, LAMBDA o : o.file = f /\ o.op = "put")

\* Input file f was read and none of its storage calls failed.
FileOk(f) ==
    /\ \E k \in 1..Len(hh_ops) : hh_ops[k].file = f /\ hh_ops[k].op = "get"
    /\ \A k \in 1..Len(hh_ops) : hh_ops[k].file = f => ~hh_ops[k].failed

\* The input files the loop has left behind, and those of them that are ok.
FilesDone == 1..(hh_file - 1)

OkDone == {f \in FilesDone : FileOk(f)}

\* The j-th smallest element of a set of numbers.
Nth(S, j) == CHOOSE f \in S : Cardinality({g \in S : g < f}) = j - 1

\* The handler has taken the event and has not refused it.
HHRunning == hh_pc \notin {"idle", "start"} /\ (hh_pc = "raised" => hh_ops # <<>>)

\* C12: a failed read or a failed write of a chunk or metadata artifact does
\* not abort the invocation; the files the loop has left behind have an
\* OutputFile exactly when they were read and none of their storage calls
\* failed, in input order; and when the handler returns, a read was attempted
\* for every input file whose location names a bucket and a key.
C12_FailureDropsOnlyThatFile ==
    HHRunning =>
       /\ hh_pc # "raised"
       /\ Len(hh_output) = Cardinality(OkDone)
       /\ \A j \in 1..Len(hh_output) :
             /\ hh_output[j].originalFileLocation =
                   hh_event["inputFiles"][Nth(OkDone, j)]["originalFileLocation"]
             /\ hh_output[j].fileMetadata =
                   hh_event["inputFiles"][Nth(OkDone, j)]["fileMetadata"]
       /\ hh_pc = "returned" =>
             \A f \in 1..Len(hh_event["inputFiles"]) :
                LET uri == Get(Get(hh_event["inputFiles"][f], "originalFileLocation",
                                   EmptyDict), "uri", <<>>)
                IN  (uri # <<>> /\ ~BadUri(uri)) =>
                       \E k \in 1..Len(hh_ops) : hh_ops[k].file = f /\ hh_ops[k].op = "get"

\* A put of the first file failed after its chunk 0 was written; the second
\* file was processed and is the only one in the result.
C12_Witness ==
    /\ hh_pc = "returned"
    /\ Len(hh_event["inputFiles"]) = 2
    /\ \E k \in 1..Len(hh_ops) :
          hh_ops[k].file = 1 /\ hh_ops[k].op = "put" /\ hh_ops[k].failed /\ k > 2
    /\ FileOk(2)
    /\ Len(hh_output) = 1
    /\ hh_output[1].originalFileLocation = hh_event["inputFiles"][2]["originalFileLocation"]
    /\ Len(hh_output[1].contentBatches) >= 2

\* C15: two input files with different URIs never write the same key of the
\* same bucket, so that neither touches what the other has written.
C15_DistinctFilesWriteDisjointKeys ==
    \A j, k \in 1..Len(hh_ops) :
       (/\ hh_ops[j].op = "put"
        /\ hh_ops[k].op = "put"
        /\ hh_ops[j].file # hh_ops[k].file
        /\ hh_event["inputFiles"][hh_ops[j].file]["originalFileLocation"]["uri"] #
              hh_event["inputFiles"][hh_ops[k].file]["originalFileLocation"]["uri"])
       => ~(hh_ops[j].bucket = hh_ops[k].bucket /\ hh_ops[j].key = hh_ops[k].key)

\* The input file that output file j was made from.
FileOfOutput(j) ==
    CHOOSE f \in 1..Len(hh_event["inputFiles"]) :
       /\ "originalFileLocation" \in DOMAIN hh_event["inputFiles"][f]
       /\ hh_event["inputFiles"][f]["originalFileLocation"] = hh_output[j].originalFileLocation

\* Every chunk of the file under the loop has been written.
FileWritten == hh_pc = "write_chunk" /\ hh_idx = Len(processed_chunks)

\* C16: when the chunks of a file are all written, the file's puts are two per
\* emitted chunk, P + C chunk artifacts each followed by its metadata artifact,
\* and processed_batches lists the chunk keys in emission order; at any time the
\* keys put for one file are pairwise distinct; and every OutputFile lists
\* exactly the chunk keys of its file's puts, in order, all of them written.
C16_OneArtifactPairPerChunk ==
    /\ FileWritten =>
          /\ Len(processed_chunks) = Len(parent_chunks) + Len(all_child_chunks)
          /\ Len(PutsOf(hh_file)) = 2 * (Len(parent_chunks) + Len(all_child_chunks))
          /\ \A n \in 1..Len(processed_chunks) :
                /\ ~PutsOf(hh_file)[2 * n - 1].failed
                /\ ~PutsOf(hh_file)[2 * n].failed
                /\ PutsOf(hh_file)[2 * n - 1].body = processed_chunks[n].content
                /\ PutsOf(hh_file)[2 * n].body.json.metadataAttributes =
                      processed_chunks[n].metadata
                /\ PutsOf(hh_file)[2 * n].key =
                      PutsOf(hh_file)[2 * n - 1].key \o <<".metadata.json">>
          /\ hh_batches = [n \in 1..Len(processed_chunks) |->
                              [key |-> PutsOf(hh_file)[2 * n - 1].key]]
    /\ \A f \in 1..Len(Get(hh_event, "inputFiles", <<>>)) :
          \A a, b \in 1..Len(PutsOf(f)) :
             PutsOf(f)[a].key = PutsOf(f)[b].key => a = b
    /\ \A j \in 1..Len(hh_output) :
          /\ 2 * Len(hh_output[j].contentBatches) = Len(PutsOf(FileOfOutput(j)))
          /\ \A n \in 1..Len(hh_output[j].contentBatches) :
                /\ hh_output[j].contentBatches[n].key = PutsOf(FileOfOutput(j))[2 * n - 1].key
                /\ ~PutsOf(FileOfOutput(j))[2 * n - 1].failed
                /\ ~PutsOf(FileOfOutput(j))[2 * n].failed

\* A text of two parents and eight children: ten chunk keys are listed and
\* twenty puts were made when the handler returns.
C16_Witness ==
    /\ hh_pc = "returned"
    /\ Len(hh_output) = 1
    /\ Len(parent_chunks) = 2
    /\ Len(all_child_chunks) = 8
    /\ Len(hh_output[1].contentBatches) = 10
    /\ Len(PutsOf(FileOfOutput(1))) = 20

\* inputFiles or bucketName is missing or empty.
MissingParameters(event) ==
    \/ "inputFiles" \notin DOMAIN event
    \/ "bucketName" \notin DOMAIN event
    \/ event["inputFiles"] = <<>>
    \/ event["bucketName"] = ""

\* C14: in each of the three handlers the first step raises to the caller
\* exactly when inputFiles or bucketName is missing or empty, and no storage
\* call has been made by then; with both present the handler goes on to its
\* loop over the input files.
C14_MissingParametersRaiseFirst ==
    [][/\ hh_pc = "start" =>
             /\ hh_ops = <<>> /\ hh_ops' = <<>>
             /\ hh_pc' = IF MissingParameters(hh_event) THEN "raised" ELSE "next_file"
       /\ lh_pc = "start" =>
             /\ lh_ops = <<>> /\ lh_ops' = <<>>
             /\ lh_pc' = IF MissingParameters(lh_event) THEN "raised" ELSE "next_file"
       /\ vh_pc = "start" =>
             /\ vh_ops = <<>> /\ vh_ops' = <<>>
             /\ vh_pc' = IF MissingParameters(vh_event) THEN "raised" ELSE "next_file"
      ]_vars

\* lambda-v1 was invoked with files and an empty bucketName: it has raised
\* and made no storage call.
C14_Witness ==
    /\ vh_pc = "raised"
    /\ "bucketName" \in DOMAIN vh_event
    /\ vh_event["bucketName"] = ""
    /\ Len(vh_event["inputFiles"]) = 2
    /\ vh_ops = <<>>

\* create_chunks has returned its result or raised.
CreateChunksOver == pc \in {"emit_parent", "emit_child", "done", "raised"}

\* The number of child windows recorded for a parent of n tokens is
\* ceil(n / (childSize - overlap)) when 0 <= overlap < childSize.
ChildCounts ==
    (0 <= overlap /\ overlap < child_chunk_size) =>
       \A p \in 0..(Len(parent_chunks) - 1) :
          ParentId(p) \in DOMAIN parent_to_children =>
             LET n == Len(Split(parent_chunks[p + 1]))
                 d == child_chunk_size - overlap
             IN  /\ n > 0
                 /\ Len(parent_to_children[ParentId(p)]) = (n + d - 1) \div d

\* C17: for every text and every triple of sizes, positive or not, overlap
\* equal to or above the child size included, create_chunks returns or raises
\* after finitely many steps; and for 0 <= overlap < childSize a parent of n
\* tokens has ceil(n / (childSize - overlap)) child windows.
C17_CreateChunksTerminates == (<>CreateChunksOver) /\ []ChildCounts

\* overlap above the child size: create_chunks has returned two parents and
\* no child window.
C17_Witness ==
    /\ pc = "emit_parent"
    /\ child_chunk_size >= 1
    /\ overlap > child_chunk_size
    /\ Len(parent_chunks) = 2
    /\ parent_idx = 0
    /\ all_child_chunks = <<>>
    /\ DOMAIN parent_to_children = {ParentId(0), ParentId(1)}

====
